---- MODULE Spec2Model ----
(***************************************************************************)
(* Model of xpra/net/compression.py: the registry of compression backends, *)
(* the compression wrapper and the decompression dispatcher.               *)
(*                                                                         *)
(* Calls are synchronous: an operation is called when the caller is idle   *)
(* (op = "idle"), it runs to completion in one step and leaves its         *)
(* arguments, its result and the backend functions it invoked in the       *)
(* state; Return is the caller dropping the result.                        *)
(* Python asserts are modelled as enabled (the interpreter's default).     *)
(***************************************************************************)
EXTENDS Integers, Sequences, FiniteSets, TLC

\* the registry, and the call of a single caller
VARIABLES COMPRESSION, op, args, ret, invoked, recv
\* concurrent callers: each thread's position, arguments, locals and result
VARIABLES t_pc, t_args, t_local, t_ret

cvars == <<op, args, ret, invoked, recv>>
tvars == <<t_pc, t_args, t_local, t_ret>>
\* the ScreenCast server: its fields, the captures it created, the portal
\* requests awaiting their Response signal, the idle callbacks queued, the
\* quit calls made, and the signal or call handled last
VARIABLES capture, captures, request_counter, session_counter, session_handle,
          window_to_id, idle_queue, pending, quit_calls, s_last

svars == <<capture, captures, request_counter, session_counter, session_handle,
           window_to_id, idle_queue, pending, quit_calls, s_last>>
vars == <<COMPRESSION, cvars, tvars, svars>>

-----------------------------------------------------------------------------
(* Bounds of the model *)

\* number of threads calling the wrapper and decompress concurrently
NThreads == 2

\* number of portal sessions requested, and of streams in a Start result
MaxSessions == 2
MaxStreams == 2

\* longest byte sequence handed to the wrapper
MaxDataLen == 4
\* longest sequence of names handed to init_compressors
MaxNames == 2
\* levels passed to the backends' compress functions: -NegLevels..MaxLevel
NegLevels == 1
MaxLevel == 16
\* tags passed to decompress and get_compression_type: -NegTags..MaxTag
NegTags == 2
MaxTag == 81
\* the largest min_saving passed to the wrapper
MaxSaving == 2

-----------------------------------------------------------------------------
(* Program constants *)

ALL_COMPRESSORS == <<"lz4", "zlib", "brotli", "none">>
PERFORMANCE_ORDER == <<"none", "lz4", "zlib", "brotli">>
PERFORMANCE_COMPRESSION == <<"lz4", "zlib", "brotli">>

\* xpra.net.header
LZ4_FLAG == 16
ZLIB_FLAG == 0
BROTLI_FLAG == 64

\* xpra.common; the sizes are scaled down, keeping
\* 0 < MIN_COMPRESS_SIZE < BROTLI_LARGE < MAX_DECOMPRESSED_SIZE
MIN_COMPRESS_SIZE == 1
MAX_DECOMPRESSED_SIZE == 3
\* the 1024*1024 of brotli_compress_shim, scaled down likewise
BROTLI_LARGE == 2

-----------------------------------------------------------------------------
(* Python helpers *)

Min(a, b) == IF a <= b THEN a ELSE b
Max(a, b) == IF a >= b THEN a ELSE b

\* x & flag, for a flag that is a single bit (two's complement, any width)
BitAnd(x, flag) == IF (x \div flag) % 2 = 1 THEN flag ELSE 0
\* x | flag, for a flag that is a single bit
BitOr(x, flag) == IF BitAnd(x, flag) # 0 THEN x ELSE x + flag

SeqToSet(s) == {s[i] : i \in 1..Len(s)}

\* the elements of s that satisfy Keep, in the order of s
RECURSIVE FilterSeq(_, _)
FilterSeq(s, keep) ==
    IF s = <<>> THEN <<>>
    ELSE (IF Head(s) \in keep THEN <<Head(s)>> ELSE <<>>) \o FilterSeq(Tail(s), keep)

-----------------------------------------------------------------------------
(* Inputs *)

Bytes == {0, 1}
SeqsUpTo(S, n) == UNION {[1..k -> S] : k \in 0..n}
Data == SeqsUpTo(Bytes, MaxDataLen)

Levels == (0 - NegLevels)..MaxLevel
\* the levels the wrapper is called with: the ends of Levels and of the
\* ranges the backends clamp to
WrapLevels == {0 - NegLevels, 0, 1, 9, 11, 15, MaxLevel}
Tags == (0 - NegTags)..MaxTag
\* kwargs.get("min_saving", 0)
MinSavings == {0, MaxSaving}

BackendNames == {"lz4", "zlib", "brotli", "none"}
\* "bogus" stands for any name without an init_<name> function
Names == BackendNames \cup {"bogus"}
NameSeqs == SeqsUpTo(Names, MaxNames)
\* the orders get_enabled_compressors is called with
Orders == NameSeqs \cup {ALL_COMPRESSORS, PERFORMANCE_ORDER}

\* the importable modules that may be absent from an installation
Modules == {"xpra.net.lz4", "xpra.net.brotli", "brotli"}
MissingSets == SUBSET Modules
\* XPRA_<NAME>=0 in the environment: at most one name disabled
DisabledSets == {{}} \cup {{x} : x \in BackendNames}

-----------------------------------------------------------------------------
(* The backends' libraries: external code, assumed only to be lossless.     *)
(* A run-length code whose first element carries the format's magic.       *)

Magic(algo) == CASE algo = "lz4" -> 10 [] algo = "zlib" -> 20 [] OTHER -> 30

RECURSIVE RunLen(_)
\* length of the first run of a non-empty sequence
RunLen(s) ==
    IF Len(s) = 1 \/ s[2] # s[1] THEN 1 ELSE 1 + RunLen(Tail(s))

RECURSIVE RLE(_)
RLE(s) ==
    IF s = <<>> THEN <<>>
    ELSE LET n == RunLen(s) IN <<s[1], n>> \o RLE(SubSeq(s, n + 1, Len(s)))

RECURSIVE UnRLE(_)
UnRLE(c) ==
    IF Len(c) < 2 THEN <<>>
    ELSE [i \in 1..c[2] |-> c[1]] \o UnRLE(SubSeq(c, 3, Len(c)))

LibCompress(algo, packet) ==
    IF packet = <<>> THEN <<Magic(algo)>>
    ELSE LET r == RLE(packet) IN <<r[1] + Magic(algo)>> \o Tail(r)

\* the stream is one this library wrote
LibValid(algo, data) ==
    /\ data # <<>>
    /\ \/ data = <<Magic(algo)>>
       \/ /\ Len(data) % 2 = 0
          /\ data[1] - Magic(algo) \in Bytes
          /\ \A i \in 1..Len(data) :
                IF i % 2 = 0 THEN data[i] >= 1 ELSE (i = 1 \/ data[i] \in Bytes)

LibDecompress(algo, data) ==
    IF Len(data) = 1 THEN <<>>
    ELSE UnRLE(<<data[1] - Magic(algo)>> \o Tail(data))

\* what decompress is called with: streams the libraries wrote, and others
WireData ==
    {LibCompress(a, d) : a \in {"lz4", "zlib", "brotli"},
                         d \in {<<>>, <<0, 0, 0>>, <<0, 1, 1, 1>>}}
    \cup {<<>>, <<0, 0, 0>>}

-----------------------------------------------------------------------------
(* Codec descriptors: Compression(name, version, python_version, ...)      *)

Compression(name, version, python_version) ==
    [name |-> name, version |-> version, python_version |-> python_version]

\* Python's None, where a descriptor is expected
NoCompression == Compression("None", "None", "None")

\* each init_<name> yields [exc, c]: the exception it raises ("" for none)
\* and the value it returns
init_lz4(missing) ==
    IF "xpra.net.lz4" \in missing
    THEN [exc |-> "", c |-> NoCompression]
    ELSE [exc |-> "", c |-> Compression("lz4", "lz4.get_version()", "1")]

init_brotli(missing) ==
    IF "xpra.net.brotli" \notin missing \/ "brotli" \notin missing
    THEN [exc |-> "", c |-> Compression("brotli", "None", "brotli_version")]
    ELSE [exc |-> "ImportError", c |-> NoCompression]

init_zlib == [exc |-> "", c |-> Compression("zlib", "None", "zlib.__version__")]

init_none == [exc |-> "", c |-> Compression("none", "None", "None")]

\* fn = globals().get("init_%s" % x); c = fn(): calling None is a TypeError
CallInit(x, missing) ==
    CASE x = "lz4" -> init_lz4(missing)
      [] x = "brotli" -> init_brotli(missing)
      [] x = "zlib" -> init_zlib
      [] x = "none" -> init_none
      [] OTHER -> [exc |-> "TypeError", c |-> NoCompression]

\* COMPRESSION is a dict: the sequence of its items in insertion order
KeySeq(reg) == [i \in 1..Len(reg) |-> reg[i].key]
Keys(reg) == {reg[i].key : i \in 1..Len(reg)}

\* COMPRESSION.get(x): the descriptor, or None
Get(reg, x) ==
    IF x \in Keys(reg)
    THEN reg[CHOOSE i \in 1..Len(reg) : reg[i].key = x].value
    ELSE NoCompression

\* the dict after COMPRESSION.get(x), x in COMPRESSION or COMPRESSION[x] for
\* each x of xs: lookups insert nothing
\* (AfterGet_SetDefault: lookups that insert None for an absent key)
RECURSIVE AfterGet_SetDefault(_, _)
AfterGet_SetDefault(reg, xs) ==
    IF xs = <<>> THEN reg
    ELSE AfterGet_SetDefault(
             IF Head(xs) \in Keys(reg) THEN reg
             ELSE Append(reg, [key |-> Head(xs), value |-> NoCompression]),
             Tail(xs))
AfterGet(reg, xs) == reg

\* COMPRESSION[x] = c: a key already present keeps its place
Register(reg, x, c) ==
    IF x \in Keys(reg)
    THEN [i \in 1..Len(reg) |-> IF reg[i].key = x THEN [key |-> x, value |-> c]
                                                  ELSE reg[i]]
    ELSE Append(reg, [key |-> x, value |-> c])

\* the exceptions init_compressors catches and logs
CaughtByInit == {"TypeError", "ImportError", "AttributeError"}

\* the loop of init_compressors over names[i..]: [reg, exc], the registry
\* it leaves and the exception that leaves the function ("" for none)
RECURSIVE InitLoop(_, _, _, _, _)
InitLoop(names, i, reg, missing, disabled) ==
    IF i > Len(names) THEN [reg |-> reg, exc |-> ""]
    ELSE LET x == names[i]
             r == CallInit(x, missing)
         IN  IF x \in disabled
             THEN InitLoop(names, i + 1, reg, missing, disabled)
             ELSE IF r.exc # ""
             THEN IF r.exc \in CaughtByInit
                  THEN InitLoop(names, i + 1, reg, missing, disabled)
                  ELSE [reg |-> reg, exc |-> r.exc]
             ELSE IF r.c = NoCompression
             THEN [reg |-> reg, exc |-> "AssertionError"]
             ELSE InitLoop(names, i + 1, Register(reg, x, r.c), missing, disabled)

-----------------------------------------------------------------------------
(* The descriptors' compress and decompress functions                      *)

\* each compress yields the (tag, bytes) it returns and, as param, the
\* acceleration, quality or level it hands to the library
\* lz4_compress without the flag in its tag
lz4_compress_NoFlag(packet, level) ==
    [tag |-> Min(15, level),
     data |-> LibCompress("lz4", packet),
     param |-> Max(0, 5 - (level \div 3))]

lz4_compress(packet, level) ==
    [tag |-> BitOr(Min(15, level), LZ4_FLAG),
     data |-> LibCompress("lz4", packet),
     param |-> Max(0, 5 - (level \div 3))]

\* brotli_compress_shim taking an input of exactly BROTLI_LARGE for large
brotli_compress_shim_AtLeast(packet, level) ==
    LET l == IF Len(packet) >= BROTLI_LARGE THEN Min(9, level) ELSE Min(11, level)
    IN  [tag |-> BitOr(l, BROTLI_FLAG),
         data |-> LibCompress("brotli", packet),
         param |-> l]

\* brotli_compress_shim clamping to 9 whatever the size
brotli_compress_shim_Min9(packet, level) ==
    LET l == Min(9, level)
    IN  [tag |-> BitOr(l, BROTLI_FLAG),
         data |-> LibCompress("brotli", packet),
         param |-> l]

brotli_compress_shim(packet, level) ==
    LET l == IF Len(packet) > BROTLI_LARGE THEN Min(9, level) ELSE Min(11, level)
    IN  [tag |-> BitOr(l, BROTLI_FLAG),
         data |-> LibCompress("brotli", packet),
         param |-> l]

zlib_compress(packet, level) ==
    LET l == Min(9, Max(1, level))
    IN  [tag |-> l + ZLIB_FLAG,
         data |-> LibCompress("zlib", packet),
         param |-> l]

nocompress(packet, level) == [tag |-> 0, data |-> packet, param |-> 0]

\* c.compress(packet, level)
CallCompress(c, packet, level) ==
    CASE c.name = "lz4" -> lz4_compress(packet, level)
      [] c.name = "brotli" -> brotli_compress_shim(packet, level)
      [] c.name = "zlib" -> zlib_compress(packet, level)
      [] OTHER -> nocompress(packet, level)

\* each decompress yields [exc, data]
lz4_decompress(data) ==
    IF ~LibValid("lz4", data) THEN [exc |-> "lz4.error", data |-> <<>>]
    ELSE LET v == LibDecompress("lz4", data)
         IN  IF Len(v) > MAX_DECOMPRESSED_SIZE
             THEN [exc |-> "lz4.error", data |-> <<>>]
             ELSE [exc |-> "", data |-> v]

brotli_decompress(data) ==
    IF ~LibValid("brotli", data) THEN [exc |-> "brotli.error", data |-> <<>>]
    ELSE [exc |-> "", data |-> LibDecompress("brotli", data)]

zlib_decompress(data) ==
    IF ~LibValid("zlib", data) THEN [exc |-> "zlib.error", data |-> <<>>]
    ELSE LET v == LibDecompress("zlib", data)
         IN  IF Len(v) > MAX_DECOMPRESSED_SIZE
             THEN [exc |-> "AssertionError", data |-> <<>>]
             ELSE [exc |-> "", data |-> v]

nodecompress(v) == [exc |-> "", data |-> v]

\* c.decompress(data)
CallDecompress(c, data) ==
    CASE c.name = "lz4" -> lz4_decompress(data)
      [] c.name = "brotli" -> brotli_decompress(data)
      [] c.name = "zlib" -> zlib_decompress(data)
      [] OTHER -> nodecompress(data)

-----------------------------------------------------------------------------
(* Arguments and results *)

NoArgs ==
    [names |-> <<>>, missing |-> {}, disabled |-> {},
     datatype |-> "", data |-> <<>>, level |-> 0, can_inline |-> FALSE,
     requested |-> {}, min_saving |-> 0, name |-> "", full |-> FALSE]

\* kind: "" (nothing returned yet), "None", "raise", "Compressed",
\* "LevelCompressed", "tuple" (a backend's (tag, bytes)), "dict", "str",
\* "names" (a tuple of names), "bool"
NoRet ==
    [kind |-> "", exc |-> "", datatype |-> <<>>, data |-> <<>>, level |-> 0,
     algorithm |-> "", can_inline |-> FALSE, caps |-> <<>>, param |-> 0,
     names |-> <<>>, bool |-> FALSE]

\* what the receiving side got: kind is "", "bytes" or "raise"
NoRecv == [kind |-> "", exc |-> "", data |-> <<>>, algo |-> ""]

Raise(exc) == [NoRet EXCEPT !.kind = "raise", !.exc = exc]

EmptyRegistry == <<>>

-----------------------------------------------------------------------------
(* The functions of the module, as functions of the registry: each yields  *)
(* its result and the backend functions it invoked                          *)

\* size<=MIN_COMPRESS_SIZE (TooSmall_Strict: the comparison made strict)
TooSmall_Strict(size) == size < MIN_COMPRESS_SIZE
TooSmall(size) == size <= MIN_COMPRESS_SIZE

\* size>MAX_DECOMPRESSED_SIZE (TooLarge_OffByOne: the limit off by one)
TooLarge_OffByOne(size) == size > MAX_DECOMPRESSED_SIZE + 1
TooLarge(size) == size > MAX_DECOMPRESSED_SIZE

\* next(x for x in PERFORMANCE_COMPRESSION if kwargs.get(x) and x in COMPRESSION):
\* the candidates in order; none is StopIteration
\* (Candidates_AllCompressors: iterating ALL_COMPRESSORS, which has "none")
Candidates_AllCompressors(reg, requested) ==
    FilterSeq(ALL_COMPRESSORS, requested \cap Keys(reg))
Candidates(reg, requested) ==
    FilterSeq(PERFORMANCE_COMPRESSION, requested \cap Keys(reg))

\* len(cdata)>=size+min_saving
NoSaving(clen, size, min_saving) == clen >= size + min_saving

\* no()
RawPayload(datatype, data, can_inline) ==
    [NoRet EXCEPT !.kind = "Compressed", !.datatype = <<"raw", datatype>>,
                  !.data = data, !.can_inline = can_inline]

compressed_wrapper_fn(reg, datatype, data, level, can_inline, requested, min_saving) ==
    LET size == Len(data)
        no == RawPayload(datatype, data, can_inline)
        found == Candidates(reg, requested)
        algo == Head(found)
        r == CallCompress(Get(reg, algo), data, level)
    IN  IF TooSmall(size)
        THEN [ret |-> no, invoked |-> <<>>]
        ELSE IF TooLarge(size)
        THEN [ret |-> Raise("Exception: uncompressed data is too large"),
              invoked |-> <<>>]
        ELSE IF found = <<>>
        THEN [ret |-> no, invoked |-> <<>>]
        ELSE IF NoSaving(Len(r.data), size, min_saving)
        THEN [ret |-> no, invoked |-> <<<<algo, "compress">>>>]
        ELSE [ret |-> [NoRet EXCEPT !.kind = "LevelCompressed",
                                    !.datatype = <<datatype>>,
                                    !.data = r.data, !.level = r.tag,
                                    !.algorithm = algo,
                                    !.can_inline = can_inline,
                                    !.param = r.param],
              invoked |-> <<<<algo, "compress">>>>]

\* get_compression_type with the two tests in the other order
get_compression_type_fn_BrotliFirst(level) ==
    IF BitAnd(level, BROTLI_FLAG) # 0 THEN "brotli"
    ELSE IF BitAnd(level, LZ4_FLAG) # 0 THEN "lz4"
    ELSE "zlib"

get_compression_type_fn(level) ==
    IF BitAnd(level, LZ4_FLAG) # 0 THEN "lz4"
    ELSE IF BitAnd(level, BROTLI_FLAG) # 0 THEN "brotli"
    ELSE "zlib"

\* decompress_by_name without the lookup test
decompress_by_name_fn_PassThrough(reg, data, algo) ==
    LET r == CallDecompress(Get(reg, algo), data)
    IN  [recv |-> IF r.exc # ""
                  THEN [NoRecv EXCEPT !.kind = "raise", !.exc = r.exc,
                                      !.algo = algo]
                  ELSE [NoRecv EXCEPT !.kind = "bytes", !.data = r.data,
                                      !.algo = algo],
         invoked |-> <<<<algo, "decompress">>>>]

decompress_by_name_fn(reg, data, algo) ==
    IF Get(reg, algo) = NoCompression
    THEN [recv |-> [NoRecv EXCEPT !.kind = "raise",
                                  !.exc = "InvalidCompressionException",
                                  !.algo = algo],
          invoked |-> <<>>]
    ELSE LET r == CallDecompress(Get(reg, algo), data)
         IN  [recv |-> IF r.exc # ""
                       THEN [NoRecv EXCEPT !.kind = "raise", !.exc = r.exc,
                                           !.algo = algo]
                       ELSE [NoRecv EXCEPT !.kind = "bytes", !.data = r.data,
                                           !.algo = algo],
              invoked |-> <<<<algo, "decompress">>>>]

decompress_fn(reg, data, level) ==
    LET algo == IF BitAnd(level, LZ4_FLAG) # 0 THEN "lz4"
                ELSE IF BitAnd(level, BROTLI_FLAG) # 0 THEN "brotli"
                ELSE "zlib"
    IN  decompress_by_name_fn(reg, data, algo)

\* use(compressor)
use_fn(reg, compressor) == compressor \in Keys(reg)

\* get_enabled_compressors(order): tuple(x for x in order if x in COMPRESSION)
\* (get_enabled_compressors_fn_Canonical: filtering ALL_COMPRESSORS instead)
get_enabled_compressors_fn_Canonical(reg, order) ==
    FilterSeq(ALL_COMPRESSORS, Keys(reg) \cap SeqToSet(order))
get_enabled_compressors_fn(reg, order) == FilterSeq(order, Keys(reg))

Truthy(v) == v \notin {"None", ""}

\* the sub-map get_compression_caps builds for x, as the set of its key paths
CapsEntry(x, c, full) ==
    [name |-> x,
     keys |-> {<<"">>}
              \cup (IF full /\ Truthy(c.version) THEN {<<"version">>} ELSE {})
              \cup (IF full /\ Truthy(c.python_version)
                    THEN {<<"python-", x, "">>}
                         \cup (IF c.python_version # "None"
                               THEN {<<"python-", x, "version">>} ELSE {})
                    ELSE {})]

\* the loop of get_compression_caps over order: the entries in insertion order
RECURSIVE CapsLoop(_, _, _)
CapsLoop(reg, order, full) ==
    IF order = <<>> THEN <<>>
    ELSE LET x == Head(order)
             c == Get(reg, x)
         IN  (IF c = NoCompression THEN <<>>
              ELSE <<CapsEntry(x, c, full)>>)
             \o CapsLoop(reg, Tail(order), full)

\* get_compression_caps iterating the registry instead of ALL_COMPRESSORS
get_compression_caps_fn_RegistryOrder(reg, full) == CapsLoop(reg, KeySeq(reg), full)
get_compression_caps_fn(reg, full) == CapsLoop(reg, ALL_COMPRESSORS, full)

-----------------------------------------------------------------------------
(* State *)

Threads == 1..NThreads

NoThreadArgs ==
    [fn |-> "", data |-> <<>>, level |-> 0, can_inline |-> FALSE,
     requested |-> {}, min_saving |-> 0]

\* the local variables of a call: algo, c, cl, cdata
NoLocals ==
    [algo |-> "", c |-> NoCompression, cl |-> 0, cdata |-> <<>>, param |-> 0]

NoThreadRet == [ret |-> NoRet, recv |-> NoRecv]

ThreadsIdle ==
    /\ t_pc = [t \in Threads |-> "idle"]
    /\ t_args = [t \in Threads |-> NoThreadArgs]
    /\ t_local = [t \in Threads |-> NoLocals]
    /\ t_ret = [t \in Threads |-> NoThreadRet]

NoRequest == [token |-> 0, method |-> "", session |-> 0]

NoSignal == [op |-> "", request |-> NoRequest, code |-> 0, handle |-> 0, streams |-> <<>>]

\* ScreenCast.__init__ and makeRootWindowModels: no capture, no window
ScreenCast__init__ ==
    /\ capture = 0
    /\ captures = <<>>
    /\ request_counter = 0
    /\ session_counter = 0
    /\ session_handle = 0
    /\ window_to_id = {}
    /\ idle_queue = <<>>
    /\ pending = {}
    /\ quit_calls = <<>>
    /\ s_last = NoSignal

Init ==
    /\ COMPRESSION = EmptyRegistry
    /\ op = "idle"
    /\ args = NoArgs
    /\ ret = NoRet
    /\ invoked = <<>>
    /\ recv = NoRecv
    /\ ThreadsIdle
    /\ ScreenCast__init__

-----------------------------------------------------------------------------
(* Operations *)

\* init_compressors(*names), in an environment where the modules of
\* missing cannot be imported and XPRA_<X> is false for the names of disabled
Do_init_compressors(opname, names, missing, disabled) ==
    LET r == InitLoop(names, 1, COMPRESSION, missing, disabled) IN
    /\ op' = opname
    /\ args' = [NoArgs EXCEPT !.names = names, !.missing = missing,
                              !.disabled = disabled]
    /\ COMPRESSION' = r.reg
    /\ ret' = IF r.exc = "" THEN [NoRet EXCEPT !.kind = "None"] ELSE Raise(r.exc)
    /\ UNCHANGED <<invoked, recv, tvars, svars>>

init_compressors ==
    /\ op = "idle"
    /\ \E names \in NameSeqs, missing \in MissingSets, disabled \in DisabledSets :
        Do_init_compressors("init_compressors", names, missing, disabled)

init_all ==
    /\ op = "idle"
    /\ \E missing \in MissingSets, disabled \in DisabledSets :
        Do_init_compressors("init_all", ALL_COMPRESSORS \o <<"none">>,
                            missing, disabled)

\* compressed_wrapper(datatype, data, level, can_inline, **kwargs):
\* requested holds the names x with a true kwargs[x]
compressed_wrapper ==
    /\ op = "idle"
    /\ \E data \in Data, level \in WrapLevels, can_inline \in BOOLEAN,
       requested \in SUBSET BackendNames, min_saving \in MinSavings :
        LET r == compressed_wrapper_fn(COMPRESSION, "text", data, level,
                                       can_inline, requested, min_saving)
        IN  /\ op' = "compressed_wrapper"
            /\ args' = [NoArgs EXCEPT !.datatype = "text", !.data = data,
                                      !.level = level, !.can_inline = can_inline,
                                      !.requested = requested,
                                      !.min_saving = min_saving]
            /\ ret' = r.ret
            /\ invoked' = r.invoked
            /\ COMPRESSION' = AfterGet(COMPRESSION, FilterSeq(PERFORMANCE_COMPRESSION, requested))
            /\ UNCHANGED <<recv, tvars, svars>>

\* the receiver of the payload the wrapper returned: decompress(p.data, p.level)
\* (a Compressed payload has no level attribute)
decompress_payload ==
    /\ op = "compressed_wrapper"
    /\ ret.kind \in {"Compressed", "LevelCompressed"}
    /\ op' = "decompress_payload"
    /\ LET r == decompress_fn(COMPRESSION, ret.data, ret.level)
       IN  IF ret.kind = "Compressed"
           THEN /\ recv' = [NoRecv EXCEPT !.kind = "raise", !.exc = "AttributeError"]
                /\ invoked' = invoked
           ELSE /\ recv' = r.recv
                /\ invoked' = invoked \o r.invoked
    /\ COMPRESSION' = AfterGet(COMPRESSION, IF ret.kind = "Compressed" THEN <<>>
                                            ELSE <<get_compression_type_fn(ret.level)>>)
    /\ UNCHANGED <<args, ret, tvars, svars>>

\* get_compressor(name)(packet, level)
get_compressor ==
    /\ op = "idle"
    /\ \E name \in Names, data \in Data, level \in Levels :
        /\ op' = "get_compressor"
        /\ args' = [NoArgs EXCEPT !.name = name, !.data = data, !.level = level]
        /\ IF Get(COMPRESSION, name) = NoCompression
           THEN /\ ret' = Raise("AssertionError")
                /\ invoked' = <<>>
           ELSE LET r == CallCompress(Get(COMPRESSION, name), data, level)
                IN  /\ ret' = [NoRet EXCEPT !.kind = "tuple", !.level = r.tag,
                                            !.data = r.data, !.param = r.param]
                    /\ invoked' = <<<<name, "compress">>>>
        /\ COMPRESSION' = AfterGet(COMPRESSION, <<name>>)
        /\ UNCHANGED <<recv, tvars, svars>>

get_compression_type ==
    /\ op = "idle"
    /\ \E level \in Tags :
        /\ op' = "get_compression_type"
        /\ args' = [NoArgs EXCEPT !.level = level]
        /\ ret' = [NoRet EXCEPT !.kind = "str",
                                !.algorithm = get_compression_type_fn(level)]
        /\ UNCHANGED <<COMPRESSION, invoked, recv, tvars, svars>>

decompress ==
    /\ op = "idle"
    /\ \E data \in WireData, level \in Tags :
        LET r == decompress_fn(COMPRESSION, data, level)
        IN  /\ op' = "decompress"
            /\ args' = [NoArgs EXCEPT !.data = data, !.level = level]
            /\ recv' = r.recv
            /\ invoked' = r.invoked
            /\ COMPRESSION' = AfterGet(COMPRESSION, <<r.recv.algo>>)
            /\ UNCHANGED <<ret, tvars, svars>>

decompress_by_name ==
    /\ op = "idle"
    /\ \E data \in WireData, algo \in Names :
        LET r == decompress_by_name_fn(COMPRESSION, data, algo)
        IN  /\ op' = "decompress_by_name"
            /\ args' = [NoArgs EXCEPT !.data = data, !.name = algo]
            /\ recv' = r.recv
            /\ invoked' = r.invoked
            /\ COMPRESSION' = AfterGet(COMPRESSION, <<algo>>)
            /\ UNCHANGED <<ret, tvars, svars>>

get_compression_caps ==
    /\ op = "idle"
    /\ \E full \in BOOLEAN :
        /\ op' = "get_compression_caps"
        /\ args' = [NoArgs EXCEPT !.full = full]
        /\ ret' = [NoRet EXCEPT !.kind = "dict",
                                !.caps = get_compression_caps_fn(COMPRESSION, full)]
        /\ COMPRESSION' = AfterGet(COMPRESSION, ALL_COMPRESSORS)
        /\ UNCHANGED <<invoked, recv, tvars, svars>>

get_enabled_compressors ==
    /\ op = "idle"
    /\ \E order \in Orders :
        /\ op' = "get_enabled_compressors"
        /\ args' = [NoArgs EXCEPT !.names = order]
        /\ ret' = [NoRet EXCEPT !.kind = "names",
                                !.names = get_enabled_compressors_fn(COMPRESSION, order)]
        /\ COMPRESSION' = AfterGet(COMPRESSION, order)
        /\ UNCHANGED <<invoked, recv, tvars, svars>>

use ==
    /\ op = "idle"
    /\ \E compressor \in Names :
        /\ op' = "use"
        /\ args' = [NoArgs EXCEPT !.name = compressor]
        /\ ret' = [NoRet EXCEPT !.kind = "bool",
                                !.bool = use_fn(COMPRESSION, compressor)]
        /\ COMPRESSION' = AfterGet(COMPRESSION, <<compressor>>)
        /\ UNCHANGED <<invoked, recv, tvars, svars>>

\* the caller drops the result of the last call
Return ==
    /\ op # "idle"
    /\ op' = "idle"
    /\ args' = NoArgs
    /\ ret' = NoRet
    /\ invoked' = <<>>
    /\ recv' = NoRecv
    /\ UNCHANGED <<COMPRESSION, tvars, svars>>

Next ==
    \/ init_compressors
    \/ init_all
    \/ compressed_wrapper
    \/ decompress_payload
    \/ get_compressor
    \/ get_compression_type
    \/ decompress
    \/ decompress_by_name
    \/ get_compression_caps
    \/ get_enabled_compressors
    \/ use
    \/ Return

Spec == Init /\ [][Next]_vars

-----------------------------------------------------------------------------
(* Concurrent calls of compressed_wrapper and decompress after             *)
(* initialization: each thread runs its call statement by statement, and   *)
(* the statements of different threads interleave.  The registry is the    *)
(* only state the threads share.                                            *)

\* what the threads call the functions with
ThreadData == {<<0, 0, 0>>, <<0, 1>>, <<0, 0, 0, 0>>}
ThreadRequests == {{"lz4", "zlib"}, {"brotli"}}
ThreadWire == {LibCompress("lz4", <<0, 0, 0>>), LibCompress("zlib", <<0, 1>>)}
ThreadTags == {5, 21}

\* the registries init_all leaves
ReadyRegistries ==
    {InitLoop(ALL_COMPRESSORS \o <<"none">>, 1, EmptyRegistry, {}, disabled).reg :
        disabled \in {{}, {"lz4"}, {"zlib"}}}

InitThreads ==
    /\ COMPRESSION \in ReadyRegistries
    /\ op = "idle"
    /\ args = NoArgs
    /\ ret = NoRet
    /\ invoked = <<>>
    /\ recv = NoRecv
    /\ ThreadsIdle
    /\ ScreenCast__init__

\* assignment to the local variables of thread t's call
\* (StoreLocal_Shared: one set of variables shared by all the calls)
StoreLocal_Shared(locals, t, v) == [u \in DOMAIN locals |-> v]
StoreLocal(locals, t, v) == [locals EXCEPT ![t] = v]

\* thread t's call returns or raises
Finish(t, r) ==
    /\ t_pc' = [t_pc EXCEPT ![t] = "done"]
    /\ t_ret' = [t_ret EXCEPT ![t] = r]

ThreadRaw(t) ==
    [NoThreadRet EXCEPT !.ret = RawPayload("text", t_args[t].data, t_args[t].can_inline)]

t_call_wrapper(t) ==
    /\ t_pc[t] = "idle"
    /\ \E data \in ThreadData, requested \in ThreadRequests :
          t_args' = [t_args EXCEPT ![t] =
                        [NoThreadArgs EXCEPT !.fn = "compressed_wrapper",
                                             !.data = data, !.level = 5,
                                             !.can_inline = TRUE,
                                             !.requested = requested]]
    /\ t_pc' = [t_pc EXCEPT ![t] = "cw_size"]
    /\ UNCHANGED <<COMPRESSION, cvars, svars, t_local, t_ret>>

\* size = len(data) and the two size tests
t_cw_size(t) ==
    /\ t_pc[t] = "cw_size"
    /\ LET size == Len(t_args[t].data)
       IN  IF TooSmall(size) THEN Finish(t, ThreadRaw(t))
           ELSE IF TooLarge(size)
           THEN Finish(t, [NoThreadRet EXCEPT
                    !.ret = Raise("Exception: uncompressed data is too large")])
           ELSE t_pc' = [t_pc EXCEPT ![t] = "cw_select"] /\ UNCHANGED t_ret
    /\ UNCHANGED <<COMPRESSION, cvars, svars, t_args, t_local>>

\* algo = next(...)
t_cw_select(t) ==
    /\ t_pc[t] = "cw_select"
    /\ LET found == Candidates(COMPRESSION, t_args[t].requested)
       IN  IF found = <<>>
           THEN Finish(t, ThreadRaw(t)) /\ UNCHANGED t_local
           ELSE /\ t_local' = StoreLocal(t_local, t,
                                  [t_local[t] EXCEPT !.algo = Head(found)])
                /\ t_pc' = [t_pc EXCEPT ![t] = "cw_compress"]
                /\ UNCHANGED t_ret
    /\ UNCHANGED <<COMPRESSION, cvars, svars, t_args>>

\* c = COMPRESSION[algo]; cl, cdata = c.compress(data, level)
t_cw_compress(t) ==
    /\ t_pc[t] = "cw_compress"
    /\ LET c == Get(COMPRESSION, t_local[t].algo)
           r == CallCompress(c, t_args[t].data, t_args[t].level)
       IN  t_local' = StoreLocal(t_local, t,
                          [t_local[t] EXCEPT !.c = c, !.cl = r.tag,
                                             !.cdata = r.data, !.param = r.param])
    /\ t_pc' = [t_pc EXCEPT ![t] = "cw_compare"]
    /\ UNCHANGED <<COMPRESSION, cvars, svars, t_args, t_ret>>

\* the min_saving test and the return
t_cw_compare(t) ==
    /\ t_pc[t] = "cw_compare"
    /\ LET l == t_local[t]
       IN  IF NoSaving(Len(l.cdata), Len(t_args[t].data), t_args[t].min_saving)
           THEN Finish(t, ThreadRaw(t))
           ELSE Finish(t, [NoThreadRet EXCEPT !.ret =
                    [NoRet EXCEPT !.kind = "LevelCompressed",
                                  !.datatype = <<"text">>,
                                  !.data = l.cdata, !.level = l.cl,
                                  !.algorithm = l.algo,
                                  !.can_inline = t_args[t].can_inline,
                                  !.param = l.param]])
    /\ UNCHANGED <<COMPRESSION, cvars, svars, t_args, t_local>>

t_call_decompress(t) ==
    /\ t_pc[t] = "idle"
    /\ \E data \in ThreadWire, level \in ThreadTags :
          t_args' = [t_args EXCEPT ![t] =
                        [NoThreadArgs EXCEPT !.fn = "decompress",
                                             !.data = data, !.level = level]]
    /\ t_pc' = [t_pc EXCEPT ![t] = "dc_decode"]
    /\ UNCHANGED <<COMPRESSION, cvars, svars, t_local, t_ret>>

\* the if/elif/else of decompress
t_dc_decode(t) ==
    /\ t_pc[t] = "dc_decode"
    /\ LET level == t_args[t].level
           algo == IF BitAnd(level, LZ4_FLAG) # 0 THEN "lz4"
                   ELSE IF BitAnd(level, BROTLI_FLAG) # 0 THEN "brotli"
                   ELSE "zlib"
       IN  t_local' = StoreLocal(t_local, t, [t_local[t] EXCEPT !.algo = algo])
    /\ t_pc' = [t_pc EXCEPT ![t] = "dc_lookup"]
    /\ UNCHANGED <<COMPRESSION, cvars, svars, t_args, t_ret>>

\* c = COMPRESSION.get(algo) and the test of decompress_by_name
t_dc_lookup(t) ==
    /\ t_pc[t] = "dc_lookup"
    /\ LET c == Get(COMPRESSION, t_local[t].algo)
       IN  IF c = NoCompression
           THEN /\ Finish(t, [NoThreadRet EXCEPT !.recv =
                        [NoRecv EXCEPT !.kind = "raise",
                                       !.exc = "InvalidCompressionException",
                                       !.algo = t_local[t].algo]])
                /\ UNCHANGED t_local
           ELSE /\ t_local' = StoreLocal(t_local, t, [t_local[t] EXCEPT !.c = c])
                /\ t_pc' = [t_pc EXCEPT ![t] = "dc_run"]
                /\ UNCHANGED t_ret
    /\ UNCHANGED <<COMPRESSION, cvars, svars, t_args>>

\* return c.decompress(data)
t_dc_run(t) ==
    /\ t_pc[t] = "dc_run"
    /\ LET l == t_local[t]
           r == CallDecompress(l.c, t_args[t].data)
       IN  Finish(t, [NoThreadRet EXCEPT !.recv =
               IF r.exc # ""
               THEN [NoRecv EXCEPT !.kind = "raise", !.exc = r.exc, !.algo = l.algo]
               ELSE [NoRecv EXCEPT !.kind = "bytes", !.data = r.data, !.algo = l.algo]])
    /\ UNCHANGED <<COMPRESSION, cvars, svars, t_args, t_local>>

\* the thread drops the result; the call's locals die with it
t_return(t) ==
    /\ t_pc[t] = "done"
    /\ t_pc' = [t_pc EXCEPT ![t] = "idle"]
    /\ t_args' = [t_args EXCEPT ![t] = NoThreadArgs]
    /\ t_local' = [t_local EXCEPT ![t] = NoLocals]
    /\ t_ret' = [t_ret EXCEPT ![t] = NoThreadRet]
    /\ UNCHANGED <<COMPRESSION, cvars, svars>>

NextThreads ==
    \E t \in Threads :
        \/ t_call_wrapper(t)
        \/ t_cw_size(t)
        \/ t_cw_select(t)
        \/ t_cw_compress(t)
        \/ t_cw_compare(t)
        \/ t_call_decompress(t)
        \/ t_dc_decode(t)
        \/ t_dc_lookup(t)
        \/ t_dc_run(t)
        \/ t_return(t)

SpecThreads == InitThreads /\ [][NextThreads]_vars

-----------------------------------------------------------------------------
(* The pipewire screencast shadow server (xposix/screencast.py).  The       *)
(* portal answers each request with one Response signal carrying a code     *)
(* and results; signals, calls and idle callbacks all run on the main loop. *)
(* capture is 0 for None, otherwise the index in captures of the Capture    *)
(* object the field refers to; session_handle 0 is the empty string.        *)

Codes == {0, 1}

\* AvailableSourceTypes, and 0 for a stream without source_type
StreamTypes == {0, 1}
AvailableSourceTypes == {1, 2, 4}
StreamSeqs == SeqsUpTo(StreamTypes, MaxStreams)

ExitCode_UNSUPPORTED == "UNSUPPORTED"

\* self.quit(code)
quit(code) == quit_calls' = Append(quit_calls, code)

\* screen_cast_call: a new token, a signal receiver on its path, the call
screen_cast_call(method, session, waiting) ==
    /\ request_counter' = request_counter + 1
    /\ pending' = waiting \cup {[token |-> request_counter + 1,
                                 method |-> method, session |-> session]}

\* dbus_request_screenscast
dbus_request_screenscast ==
    /\ session_counter' = session_counter + 1
    /\ screen_cast_call("CreateSession", session_counter + 1, pending)

notify_new_user ==
    /\ session_counter < MaxSessions
    /\ s_last' = [NoSignal EXCEPT !.op = "notify_new_user"]
    /\ IF window_to_id = {}
       THEN dbus_request_screenscast
       ELSE UNCHANGED <<session_counter, request_counter, pending>>
    /\ UNCHANGED <<capture, captures, session_handle, window_to_id, idle_queue,
                   quit_calls>>
    /\ UNCHANGED <<COMPRESSION, cvars, tvars>>

\* the tests of the three handlers
\* (CreateSessionProceeds_AnyHandle: without the test of the session handle)
CreateSessionProceeds_AnyHandle(r, handle) == r = 0
CreateSessionProceeds(r, handle) == r = 0 /\ handle # 0

\* (SelectSourcesProceeds_Always: without the test of the response code)
SelectSourcesProceeds_Always(r) == TRUE
SelectSourcesProceeds(r) == r = 0

StartProceeds(r, streams) == r = 0 /\ streams # <<>>

on_create_session_response ==
    \E q \in pending, r \in Codes :
        /\ q.method = "CreateSession"
        /\ \E handle \in {0, q.session} :
            /\ s_last' = [op |-> "on_create_session_response", request |-> q,
                          code |-> r, handle |-> handle, streams |-> <<>>]
            /\ IF r # 0
               THEN /\ quit(ExitCode_UNSUPPORTED)
                    /\ pending' = pending \ {q}
                    /\ UNCHANGED <<session_handle, request_counter>>
               ELSE /\ session_handle' = handle
                    /\ IF CreateSessionProceeds(r, handle)
                       THEN /\ screen_cast_call("SelectSources", handle, pending \ {q})
                            /\ UNCHANGED quit_calls
                       ELSE /\ quit(ExitCode_UNSUPPORTED)
                            /\ pending' = pending \ {q}
                            /\ UNCHANGED request_counter
        /\ UNCHANGED <<capture, captures, session_counter, window_to_id, idle_queue>>
        /\ UNCHANGED <<COMPRESSION, cvars, tvars>>

on_select_sources_response ==
    \E q \in pending, r \in Codes :
        /\ q.method = "SelectSources"
        /\ s_last' = [op |-> "on_select_sources_response", request |-> q,
                      code |-> r, handle |-> 0, streams |-> <<>>]
        /\ IF SelectSourcesProceeds(r)
           THEN /\ screen_cast_call("Start", session_handle, pending \ {q})
                /\ UNCHANGED quit_calls
           ELSE /\ quit(ExitCode_UNSUPPORTED)
                /\ pending' = pending \ {q}
                /\ UNCHANGED request_counter
        /\ UNCHANGED <<capture, captures, session_counter, session_handle,
                       window_to_id, idle_queue>>
        /\ UNCHANGED <<COMPRESSION, cvars, tvars>>

\* start_pipewire_capture for each stream in turn: a new Capture replaces
\* self.capture and is started; AvailableSourceTypes(source_type) raises
\* ValueError for a value that is no member, before idle_add
RECURSIVE start_pipewire_captures(_, _)
start_pipewire_captures(streams, st) ==
    IF streams = <<>> THEN st
    ELSE LET made == Append(st.captures, "started")
             c == Len(made)
         IN  IF Head(streams) \notin AvailableSourceTypes
             THEN [st EXCEPT !.capture = c, !.captures = made]
             ELSE start_pipewire_captures(Tail(streams),
                      [capture |-> c, captures |-> made,
                       idle_queue |-> Append(st.idle_queue, c)])

on_start_response ==
    \E q \in pending, r \in Codes, streams \in StreamSeqs :
        /\ q.method = "Start"
        /\ s_last' = [op |-> "on_start_response", request |-> q,
                      code |-> r, handle |-> 0, streams |-> streams]
        /\ pending' = pending \ {q}
        /\ IF StartProceeds(r, streams)
           THEN LET st == start_pipewire_captures(streams,
                              [capture |-> capture, captures |-> captures,
                               idle_queue |-> idle_queue])
                IN  /\ capture' = st.capture
                    /\ captures' = st.captures
                    /\ idle_queue' = st.idle_queue
                    /\ UNCHANGED quit_calls
           ELSE /\ quit(ExitCode_UNSUPPORTED)
                /\ UNCHANGED <<capture, captures, idle_queue>>
        /\ UNCHANGED <<request_counter, session_counter, session_handle, window_to_id>>
        /\ UNCHANGED <<COMPRESSION, cvars, tvars>>

\* the idle callback queued by start_pipewire_capture
add_new_window ==
    /\ idle_queue # <<>>
    /\ s_last' = [NoSignal EXCEPT !.op = "_add_new_window"]
    /\ window_to_id' = window_to_id \cup {Head(idle_queue)}
    /\ idle_queue' = Tail(idle_queue)
    /\ UNCHANGED <<capture, captures, request_counter, session_counter,
                   session_handle, pending, quit_calls>>
    /\ UNCHANGED <<COMPRESSION, cvars, tvars>>

last_client_exited ==
    /\ s_last' = [NoSignal EXCEPT !.op = "last_client_exited"]
    /\ IF capture # 0
       THEN /\ capture' = 0
            /\ captures' = [captures EXCEPT ![capture] = "stopped"]
       ELSE UNCHANGED <<capture, captures>>
    /\ UNCHANGED <<request_counter, session_counter, session_handle, window_to_id,
                   idle_queue, pending, quit_calls>>
    /\ UNCHANGED <<COMPRESSION, cvars, tvars>>

NextScreenCast ==
    \/ notify_new_user
    \/ on_create_session_response
    \/ on_select_sources_response
    \/ on_start_response
    \/ add_new_window
    \/ last_client_exited

SpecScreenCast == Init /\ [][NextScreenCast]_vars

-----------------------------------------------------------------------------
(* Vocabulary of the properties *)

\* the library behind backend x can be imported
LibraryPresent(x, missing) ==
    CASE x = "lz4" -> "xpra.net.lz4" \notin missing
      [] x = "brotli" -> ~({"xpra.net.brotli", "brotli"} \subseteq missing)
      [] OTHER -> x \in BackendNames

InRange(size) == MIN_COMPRESS_SIZE < size /\ size <= MAX_DECOMPRESSED_SIZE

\* place of a name in the fixed orders
Rank(x) ==
    CASE x = "lz4" -> 1 [] x = "zlib" -> 2 [] x = "brotli" -> 3 [] OTHER -> 4

\* the names the wrapper may select: requested, registered, and not "none"
Eligible ==
    {x \in {"lz4", "zlib", "brotli"} : x \in args.requested /\ x \in Keys(COMPRESSION)}
FirstEligible == CHOOSE x \in Eligible : \A y \in Eligible : Rank(x) <= Rank(y)

\* the levels each algorithm takes unchanged
ValidLevels(name, size) ==
    CASE name = "zlib" -> 1..9
      [] name = "lz4" -> 0..15
      [] name = "brotli" -> IF size > BROTLI_LARGE THEN 0..9 ELSE 0..11
      [] OTHER -> {0}

Flag(name) ==
    CASE name = "lz4" -> LZ4_FLAG [] name = "brotli" -> BROTLI_FLAG [] OTHER -> 0

\* bit 4 (value 16) and bit 6 (value 64) of a two's complement integer
Bit4(t) == (t % 32) >= 16
Bit6(t) == (t % 128) >= 64

-----------------------------------------------------------------------------
(* C1: initialization never raises; every requested, enabled backend       *)
(* whose library is present is registered, also after a missing one.       *)
(* Violated: a missing lz4 makes init_lz4 return None, and the assert of   *)
(* init_compressors raises an AssertionError that nothing catches.         *)
C1_InitNeverAborts ==
    op \in {"init_compressors", "init_all"} =>
        /\ ret.kind = "None"
        /\ \A x \in SeqToSet(args.names) :
              (x \notin args.disabled /\ LibraryPresent(x, args.missing))
                  => x \in Keys(COMPRESSION)

(* C2: an input longer than MAX_DECOMPRESSED_SIZE makes the wrapper fail   *)
(* with the too-large error, and no backend is invoked.                     *)
C2_SizeGuard ==
    (op = "compressed_wrapper" /\ Len(args.data) > MAX_DECOMPRESSED_SIZE) =>
        /\ ret.kind = "raise"
        /\ ret.exc = "Exception: uncompressed data is too large"
        /\ invoked = <<>>

C2_Witness ==
    /\ op = "compressed_wrapper"
    /\ Len(args.data) > MAX_DECOMPRESSED_SIZE
    /\ Eligible # {}
    /\ ret.kind = "raise"

(* C3: an input of at most MIN_COMPRESS_SIZE bytes comes back as a Raw     *)
(* payload with the same bytes and the caller's inlineable flag, whatever  *)
(* the registry, level, min_saving and requested algorithms, and no        *)
(* backend is invoked.                                                      *)
C3_Bypass ==
    (op = "compressed_wrapper" /\ Len(args.data) <= MIN_COMPRESS_SIZE) =>
        /\ ret.kind = "Compressed"
        /\ ret.data = args.data
        /\ ret.can_inline = args.can_inline
        /\ invoked = <<>>

C3_Witness ==
    /\ op = "compressed_wrapper"
    /\ Len(args.data) = MIN_COMPRESS_SIZE
    /\ Eligible # {}
    /\ args.min_saving > 0
    /\ args.can_inline
    /\ ret.kind = "Compressed"

(* C4: for an input in range the wrapper invokes only the first of lz4,    *)
(* zlib, brotli that is requested and registered, never "none"; with no    *)
(* such name the result is Raw, nothing is invoked and nothing is raised;  *)
(* the algorithm of an Encoded result is a key of the registry.            *)
C4_Negotiation ==
    (op = "compressed_wrapper" /\ InRange(Len(args.data))) =>
        /\ ret.kind \in {"Compressed", "LevelCompressed"}
        /\ IF Eligible = {}
           THEN ret.kind = "Compressed" /\ invoked = <<>>
           ELSE invoked = <<<<FirstEligible, "compress">>>>
        /\ ret.kind = "LevelCompressed" =>
              /\ ret.algorithm = FirstEligible
              /\ ret.algorithm \in Keys(COMPRESSION)

C4_Witness ==
    /\ op = "compressed_wrapper"
    /\ args.requested = BackendNames
    /\ Keys(COMPRESSION) = {"zlib", "brotli", "none"}
    /\ ret.kind = "LevelCompressed"
    /\ ret.algorithm = "zlib"

(* C5: every Encoded result holds strictly fewer bytes than its input,     *)
(* for every min_saving >= 0.                                               *)
(* Violated: a positive min_saving widens the acceptance test instead of   *)
(* narrowing it.                                                            *)
C5_StrictBenefit ==
    (op = "compressed_wrapper" /\ args.min_saving >= 0
        /\ ret.kind = "LevelCompressed")
        => Len(ret.data) < Len(args.data)

\* the statements C6 is about: only A is requested, A is registered, the
\* level is in A's range and the input is in range
C6_Case ==
    /\ op = "decompress_payload"
    /\ InRange(Len(args.data))
    /\ \E A \in Keys(COMPRESSION) :
          /\ args.requested = {A}
          /\ args.level \in ValidLevels(A, Len(args.data))

(* C6 as stated: decompress of the wrapper's payload and tag returns the   *)
(* input, for every input in range.                                         *)
(* Violated: a Raw payload has no tag to pass to decompress.                *)
C6_RoundTripAlways ==
    C6_Case => (recv.kind = "bytes" /\ recv.data = args.data)

(* C6, amended: when the payload is Encoded, decompress of its bytes and   *)
(* its level field returns the input; otherwise the payload is Raw, and    *)
(* its bytes are the input.                                                 *)
C6_RoundTrip ==
    C6_Case =>
        IF ret.kind = "LevelCompressed"
        THEN recv.kind = "bytes" /\ recv.data = args.data
        ELSE ret.kind = "Compressed" /\ ret.data = args.data

C6_Witness ==
    /\ C6_Case
    /\ args.requested = {"brotli"}
    /\ ret.kind = "LevelCompressed"
    /\ Len(args.data) = MAX_DECOMPRESSED_SIZE
    /\ recv.data = args.data
    /\ Keys(COMPRESSION) = BackendNames

\* the statements C7 is about: a backend's compress function was called
\* with a level of its range
C7_Case(names) ==
    /\ op = "get_compressor"
    /\ ret.kind = "tuple"
    /\ args.name \in names
    /\ args.level \in ValidLevels(args.name, Len(args.data))

C7_Decodes ==
    /\ get_compression_type_fn(ret.level) = args.name
    /\ ret.level - Flag(args.name) = args.level

(* C7 as stated: for each of none, zlib, lz4, brotli and every level of    *)
(* its range, the tag decodes to the same algorithm and level.             *)
(* Violated: the tag 0 of no-compression decodes to zlib.                   *)
C7_FlagRoundTripAll == C7_Case(BackendNames) => C7_Decodes

(* C7, amended: for each of zlib, lz4, brotli and every level of its       *)
(* range, the tag decodes to the same algorithm and level; the tag of      *)
(* no-compression is 0, which decodes to zlib.                              *)
C7_FlagRoundTrip ==
    /\ C7_Case({"lz4", "zlib", "brotli"}) => C7_Decodes
    /\ C7_Case({"none"}) =>
          (ret.level = 0 /\ get_compression_type_fn(ret.level) = "zlib")

C7_Witness ==
    /\ C7_Case({"brotli"})
    /\ args.level = 11
    /\ ret.level = 75

\* decompress, or decompress_by_name, was called for an algorithm that is
\* not registered
C8_Case ==
    \/ op = "decompress_by_name" /\ args.name \notin Keys(COMPRESSION)
    \/ /\ op = "decompress"
       /\ ~Bit4(args.level) /\ ~Bit6(args.level)
       /\ "zlib" \notin Keys(COMPRESSION)

C8_Fails ==
    /\ recv.kind = "raise"
    /\ recv.exc = "InvalidCompressionException"
    /\ op = "decompress" => recv.algo = "zlib"
    /\ invoked = <<>>

(* C8: decompress_by_name of an unregistered algorithm raises              *)
(* InvalidCompressionException, invokes no backend and leaves the registry *)
(* unchanged; decompress of a tag without flag bits decodes to zlib and    *)
(* fails the same way when zlib is not registered.                          *)
C8_Unavailable ==
    [][(C8_Case' /\ op = "idle") => (C8_Fails' /\ COMPRESSION' = COMPRESSION)]_vars

C8_Witness ==
    /\ op = "decompress"
    /\ args.level = 5
    /\ Keys(COMPRESSION) = {"lz4", "none"}
    /\ recv.exc = "InvalidCompressionException"
    /\ recv.algo = "zlib"

(* C9: decompress dispatches to lz4 when the lz4 bit of the tag is set,    *)
(* else to brotli when the brotli bit is set, else to zlib, and            *)
(* get_compression_type names the same algorithm, for every tag.            *)
C9_Dispatch ==
    /\ op = "decompress" =>
          /\ recv.algo = (IF Bit4(args.level) THEN "lz4"
                          ELSE IF Bit6(args.level) THEN "brotli" ELSE "zlib")
          /\ recv.algo = get_compression_type_fn(args.level)
          /\ recv.algo \in Keys(COMPRESSION) => invoked = <<<<recv.algo, "decompress">>>>
    /\ op = "get_compression_type" =>
          ret.algorithm = (IF Bit4(args.level) THEN "lz4"
                           ELSE IF Bit6(args.level) THEN "brotli" ELSE "zlib")

C9_Witness ==
    /\ op = "decompress"
    /\ Bit4(args.level) /\ Bit6(args.level)
    /\ recv.algo = "lz4"
    /\ Keys(COMPRESSION) = BackendNames
    /\ invoked = <<<<"lz4", "decompress">>>>

(* C10: get_compression_caps has an entry for exactly the registered       *)
(* names of the canonical list, in the canonical order lz4, zlib, brotli,  *)
(* none whatever the order of registration; each entry has the presence    *)
(* marker; version fields appear only when full is true.                    *)
C10_Caps ==
    op = "get_compression_caps" =>
        /\ ret.kind = "dict"
        /\ {ret.caps[i].name : i \in 1..Len(ret.caps)}
              = Keys(COMPRESSION) \cap SeqToSet(ALL_COMPRESSORS)
        /\ \A i, j \in 1..Len(ret.caps) :
              i < j => Rank(ret.caps[i].name) < Rank(ret.caps[j].name)
        /\ \A i \in 1..Len(ret.caps) :
              /\ <<"">> \in ret.caps[i].keys
              /\ ~args.full => ret.caps[i].keys = {<<"">>}

C10_Witness ==
    /\ op = "get_compression_caps"
    /\ KeySeq(COMPRESSION) = <<"none", "brotli", "zlib", "lz4">>
    /\ args.full
    /\ Len(ret.caps) = 4
    /\ <<"version">> \in ret.caps[1].keys

\* the k-th smallest element of a set of integers
Kth(S, k) == CHOOSE i \in S : Cardinality({j \in S : j <= i}) = k

(* C11: get_enabled_compressors(order) is exactly the elements x of order  *)
(* with use(x) true, in the order they have in order: nothing added,       *)
(* no registered name of order dropped.                                     *)
C11_Enabled ==
    op = "get_enabled_compressors" =>
        LET order == args.names
            kept == {i \in 1..Len(order) : use_fn(COMPRESSION, order[i])}
        IN  /\ ret.kind = "names"
            /\ Len(ret.names) = Cardinality(kept)
            /\ \A k \in 1..Len(ret.names) : ret.names[k] = order[Kth(kept, k)]

C11_Witness ==
    /\ op = "get_enabled_compressors"
    /\ args.names = <<"zlib", "lz4">>
    /\ KeySeq(COMPRESSION) = <<"lz4", "none", "zlib">>
    /\ ret.names = <<"zlib", "lz4">>

\* the functions that only read the registry
Readers ==
    {"compressed_wrapper", "decompress_payload", "decompress",
     "decompress_by_name", "get_compressor", "get_enabled_compressors",
     "get_compression_caps", "get_compression_type", "use"}

(* C12: every call of compressed_wrapper, decompress, decompress_by_name,  *)
(* get_compressor, get_enabled_compressors, get_compression_caps and use,  *)
(* whether it returns or raises, leaves the registered names and their     *)
(* descriptors unchanged.                                                   *)
C12_ReadOnly ==
    [][(op' \in Readers /\ op' # op) => COMPRESSION' = COMPRESSION]_vars

C12_Witness ==
    /\ op = "get_compressor"
    /\ args.name = "lz4"
    /\ ret.kind = "raise"
    /\ Keys(COMPRESSION) = {"zlib", "brotli", "none"}

\* a backend's compress function was called
C14_Case(name) ==
    /\ op = "get_compressor"
    /\ ret.kind = "tuple"
    /\ args.name = name

(* C14: for every integer level: no-compression emits tag 0; zlib          *)
(* compresses at and reports the level clamped to 1..9; the tag of lz4     *)
(* stores min(15, level) under the lz4 flag and its speed parameter is     *)
(* max(0, 5 - level div 3); brotli clamps the level to 9 for an input      *)
(* longer than the large-input threshold and to 11 otherwise, an input of  *)
(* exactly the threshold using 11.                                          *)
C14_Levels ==
    LET l == args.level
        m == IF l > 15 THEN 15 ELSE l
        z == IF l < 1 THEN 1 ELSE IF l > 9 THEN 9 ELSE l
        limit == IF Len(args.data) <= BROTLI_LARGE THEN 11 ELSE 9
        b == IF l > limit THEN limit ELSE l
    IN  /\ C14_Case("none") => ret.level = 0
        /\ C14_Case("zlib") => (ret.level = z /\ ret.param = z)
        /\ C14_Case("lz4") =>
              /\ Bit4(ret.level)
              /\ ret.level \in {m, m + 16}
              /\ ret.param = (IF l >= 15 THEN 0 ELSE 5 - (l \div 3))
        /\ C14_Case("brotli") =>
              /\ ret.param = b
              /\ Bit6(ret.level)
              /\ ret.level \in {b, b + 64}

C14_Witness ==
    /\ C14_Case("brotli")
    /\ Len(args.data) = BROTLI_LARGE
    /\ args.level = MaxLevel
    /\ ret.param = 11

(* C15: for every Encoded result of the wrapper, whatever the level,       *)
(* negative or above 15, get_compression_type of its tag is its algorithm. *)
(* Violated: brotli with a negative level emits a tag with the lz4 bit.    *)
C15_SelfDescribing ==
    (op = "compressed_wrapper" /\ ret.kind = "LevelCompressed")
        => get_compression_type_fn(ret.level) = ret.algorithm

(* C13: whatever the interleaving of the threads' compressed_wrapper and   *)
(* decompress calls, each call returns the payload or raises the error it  *)
(* would when run alone on the same arguments.                              *)
C13_Isolation ==
    \A t \in Threads :
        t_pc[t] = "done" =>
            /\ t_args[t].fn = "compressed_wrapper" =>
                  t_ret[t].ret =
                      compressed_wrapper_fn(COMPRESSION, "text", t_args[t].data,
                          t_args[t].level, t_args[t].can_inline,
                          t_args[t].requested, t_args[t].min_saving).ret
            /\ t_args[t].fn = "decompress" =>
                  t_ret[t].recv =
                      decompress_fn(COMPRESSION, t_args[t].data, t_args[t].level).recv

C13_Witness ==
    /\ t_pc[1] = "done"
    /\ t_ret[1].ret.kind = "LevelCompressed"
    /\ t_ret[1].ret.algorithm = "lz4"
    /\ t_pc[2] = "dc_run"
    /\ t_local[2].algo = "zlib"
    /\ t_args[1].data # t_args[2].data

\* the requests issued, and the captures created, by a step
Issued(method) == {q \in pending' \ pending : q.method = method}
CapturesCreated == Len(captures') - Len(captures)

\* the step handles the Response signal of a request that was awaited
Handles(method) == s_last'.request \in pending /\ s_last'.request.method = method

(* C16: SelectSources is called only in the handling of a CreateSession    *)
(* response with code 0 and a session handle, Start only in the handling   *)
(* of a SelectSources response with code 0, and a capture is created only  *)
(* in the handling of a Start response with code 0 and some stream.        *)
C16_Ordered ==
    [][/\ Issued("SelectSources") # {} =>
            /\ Handles("CreateSession")
            /\ s_last'.code = 0
            /\ s_last'.handle # 0
            /\ \A q \in Issued("SelectSources") : q.session = s_last'.handle
       /\ Issued("Start") # {} =>
            /\ Handles("SelectSources")
            /\ s_last'.code = 0
       /\ CapturesCreated > 0 =>
            /\ Handles("Start")
            /\ s_last'.code = 0
            /\ s_last'.streams # <<>>
            /\ captures'[Len(captures')] = "started"]_vars

C16_Witness ==
    /\ s_last.op = "on_start_response"
    /\ s_last.code = 0
    /\ Len(captures) = 2
    /\ capture = 2
    /\ request_counter = 3

\* the response is one of the failures of the handshake
Failed(signal) ==
    \/ signal.code # 0
    \/ signal.request.method = "CreateSession" /\ signal.handle = 0
    \/ signal.request.method = "Start" /\ signal.streams = <<>>

(* C17: a handler given a failed response calls quit(UNSUPPORTED) once,    *)
(* issues no portal request and starts no capture.                          *)
C17_FailureEnds ==
    [][(s_last'.request \in pending /\ Failed(s_last')) =>
            /\ quit_calls' = Append(quit_calls, "UNSUPPORTED")
            /\ pending' = pending \ {s_last'.request}
            /\ request_counter' = request_counter
            /\ captures' = captures
            /\ capture' = capture
            /\ idle_queue' = idle_queue]_vars

C17_Witness ==
    /\ s_last.op = "on_create_session_response"
    /\ s_last.code = 0
    /\ s_last.handle = 0
    /\ quit_calls = <<"UNSUPPORTED">>
    /\ pending = {}

(* C18: once last_client_exited has returned, the server holds no capture  *)
(* and every capture that was started has been stopped.                     *)
C18_AllStopped ==
    s_last.op = "last_client_exited" =>
        /\ capture = 0
        /\ \A i \in 1..Len(captures) : captures[i] = "stopped"

(* C19: notify_new_user issues a CreateSession request only when no        *)
(* earlier CreateSession request is pending and none has produced a        *)
(* capture.                                                                 *)
C19_OneHandshake ==
    [][Issued("CreateSession") # {} =>
            /\ \A q \in pending : q.method # "CreateSession"
            /\ captures = <<>>]_vars

====
